---------------------------- MODULE Spec2Model ----------------------------
(***************************************************************************)
(* OVITO's Python scripting layer.  First the cutoff-radius neighbor       *)
(* finder:                                                                 *)
(* ovito.data.CutoffNeighborFinder (constructor and the generator find)    *)
(* over the native engine Particles.CutoffNeighborFinder (prepare, Query). *)
(*                                                                         *)
(* Lengths are fixed-point integers in units of 0.1, so a cell of side 10  *)
(* is 100 and a cutoff of 10.1 is 101.  Vectors are triples <<x, y, z>>.   *)
(* Particle indices are 0-based as in Python; TLA+ sequences are 1-based,  *)
(* so particle j is element j + 1 of a sequence of positions.              *)
(***************************************************************************)
EXTENDS Integers, Sequences, FiniteSets, TLC

VARIABLES
    data,      \* the caller's DataCollection: attribute name -> data object
    cutoff,    \* the cutoff radius handed to the constructor
    finder,    \* the CutoffNeighborFinder object (NoFinder before construction)
    gens,      \* generator slot -> the generator object a find() call returned
    lists,     \* the neighbor lists the script has built: central index ->
               \* the tuples its last fully consumed find(index) yielded
    built,     \* the data collection as it was when the constructor ran
    dataset,   \* ovito.dataset: the scene's nodes and the selected node
    nodes,     \* ObjectNode id -> the node object: its pipeline and the
               \* output attribute compute() keeps on it
    call       \* the script's last call: what it was given and how it ended

vars == <<data, cutoff, finder, gens, lists, built, dataset, nodes, call>>

\* The state the neighbor finder and its script work on, and the state the
\* scene, pipeline and cell scripts work on.
finderVars == <<data, cutoff, finder, gens, lists, built>>

sceneVars == <<dataset, nodes, call>>

\* None, where a node is expected; node ids count from 1.
None == 0

\* Before the script has touched the scene: no nodes, nothing selected, no
\* ObjectNode made yet, no call made.
NoDataSet == [ scene_nodes |-> << >>, selected_node |-> None, made |-> 0 ]

NoCall == [ op |-> "none", args |-> << >>, raised |-> "", result |-> None ]

(***************************************************************************)
(* Bounds of the model.                                                    *)
(***************************************************************************)
\* The largest number of particles in a generated point set.
MaxParticles == 2
\* Periodic shifts up to this magnitude per axis are examined when a claim
\* quantifies over "every integer shift".
MaxShift == 4
\* Distances are kept to 1/DistResolution of a length unit.
DistResolution == 4

(***************************************************************************)
(* Vector and matrix arithmetic.                                           *)
(***************************************************************************)
Axes == 1..3

Zero3 == <<0, 0, 0>>

VAdd(u, v) == [k \in Axes |-> u[k] + v[k]]

VSub(u, v) == [k \in Axes |-> u[k] - v[k]]

VNeg(u) == [k \in Axes |-> 0 - u[k]]

Dot(u, v) == u[1] * v[1] + u[2] * v[2] + u[3] * v[3]

Cross(u, v) ==
    << u[2] * v[3] - u[3] * v[2],
       u[3] * v[1] - u[1] * v[3],
       u[1] * v[2] - u[2] * v[1] >>

\* The integer combination s[1]*a + s[2]*b + s[3]*c of the cell vectors.
Combine(m, s) ==
    [k \in Axes |-> s[1] * m[1][k] + s[2] * m[2][k] + s[3] * m[3][k]]

\* The cell volume with its sign: a . (b x c).
Determinant(m) == Dot(m[1], Cross(m[2], m[3]))

Abs(x) == IF x < 0 THEN 0 - x ELSE x

\* Floor of x / y for any sign of y /= 0.
FloorDiv(x, y) == IF y > 0 THEN x \div y ELSE (0 - x) \div (0 - y)

RECURSIVE ISqrtIn(_, _, _)
\* The integer r with lo <= r < hi and r*r <= n < (r+1)*(r+1), by bisection.
ISqrtIn(n, lo, hi) ==
    IF hi - lo <= 1 THEN lo
    ELSE LET mid == (lo + hi) \div 2
         IN  IF mid * mid <= n THEN ISqrtIn(n, mid, hi) ELSE ISqrtIn(n, lo, mid)

RECURSIVE SqrtUpper(_, _)
\* A power of two h with h*h > n.
SqrtUpper(n, h) == IF h * h > n THEN h ELSE SqrtUpper(n, 2 * h)

\* Floor of the square root of n >= 0.
ISqrt(n) == ISqrtIn(n, 0, SqrtUpper(n, 1))

(***************************************************************************)
(* The simulation cell: [matrix |-> <<a, b, c>> (the three cell vectors),  *)
(* origin |-> vector, pbc |-> <<px, py, pz>>].                             *)
(***************************************************************************)
RECURSIVE Gcd(_, _)
Gcd(x, y) == IF y = 0 THEN x ELSE Gcd(y, x % y)

\* The normal of the cell face spanned by the two cell vectors other than
\* vector k, oriented so that CellNormal(m, k) . m[k] = Determinant(m).
CellNormal(m, k) ==
    CASE k = 1 -> Cross(m[2], m[3])
      [] k = 2 -> Cross(m[3], m[1])
      [] k = 3 -> Cross(m[1], m[2])

IsDegenerate(cell) == Determinant(cell.matrix) = 0

AnyPeriodic(cell) == \E k \in Axes : cell.pbc[k]

RECURSIVE LeastShells(_, _, _)
\* The least n >= 0 with n * num >= den, compared through the squares:
\* n * n * numSq >= denSq.
LeastShells(numSq, denSq, n) ==
    IF n * n * numSq >= denSq THEN n ELSE LeastShells(numSq, denSq, n + 1)

\* The number of periodic-image shells scanned along axis k: 0 on a
\* non-periodic axis, else ceil(cutoffRadius / w) where w is the cell's
\* perpendicular width along k, w = |det| / |normal|.  det and the normal are
\* divided by their common divisor first to keep the products small.
ShellCount(cell, cutoffRadius, k) ==
    IF ~cell.pbc[k] THEN 0
    ELSE LET nrm == CellNormal(cell.matrix, k)
             det == Abs(Determinant(cell.matrix))
             g   == Gcd(Gcd(Gcd(det, Abs(nrm[1])), Abs(nrm[2])), Abs(nrm[3]))
             d   == det \div g
             u   == [i \in Axes |-> nrm[i] \div g]
         IN  LeastShells(d * d, cutoffRadius * cutoffRadius * Dot(u, u), 0)

\* How many cell vectors k the point p lies away from the cell along each
\* periodic axis: the floor of its reduced coordinate (0 inside the cell and
\* on a non-periodic axis).
WrapShift(cell, p) ==
    [k \in Axes |->
        IF ~cell.pbc[k] THEN 0
        ELSE FloorDiv(Dot(VSub(p, cell.origin), CellNormal(cell.matrix, k)),
                      Determinant(cell.matrix))]

(***************************************************************************)
(* The native finder.  prepare() rejects a non-positive cutoff and a        *)
(* degenerate cell that has a periodic axis, and otherwise takes a snapshot *)
(* of the positions and the cell, the wrap shift of every point and the     *)
(* shell count of every axis.                                               *)
(***************************************************************************)
NoFinder == [ state |-> "none", error |-> "", attrs |-> {},
              particle_count |-> 0, prepared |-> FALSE ]

\* Variant: any zero-volume cell is rejected, periodic or not.
PrepareFailsAnyDegenerate(cutoffRadius, cell) ==
    \/ cutoffRadius <= 0
    \/ IsDegenerate(cell)

\* Variant: only a negative cutoff rejected.
PrepareFailsNegativeOnly(cutoffRadius, cell) ==
    cutoffRadius < 0 \/ (IsDegenerate(cell) /\ AnyPeriodic(cell))

PrepareFails(cutoffRadius, cell) ==
    \/ cutoffRadius <= 0
    \/ IsDegenerate(cell) /\ AnyPeriodic(cell)

\* The fields prepare() stores in the finder.
Prepared(cutoffRadius, positions, cell) ==
    [ cutoffRadius        |-> cutoffRadius,
      cutoffRadiusSquared |-> cutoffRadius * cutoffRadius,
      positions           |-> positions,
      simCell             |-> cell,
      wrap                |-> [j \in 1..Len(positions) |-> WrapShift(cell, positions[j])],
      shells              |-> [k \in Axes |-> ShellCount(cell, cutoffRadius, k)] ]

(***************************************************************************)
(* The native query.  It visits the candidates (shift t, particle j) in a   *)
(* fixed order, t running over the scanned shells of the periodic axes and  *)
(* j over the particles, and stops at each candidate whose image lies       *)
(* within the cutoff of the central particle.                               *)
(***************************************************************************)
ShellDim(f, k) == 2 * f.index.shells[k] + 1

NumCandidates(f) ==
    Len(f.index.positions) * ShellDim(f, 1) * ShellDim(f, 2) * ShellDim(f, 3)

\* The k-th candidate, k in 0..NumCandidates(f)-1: particle j (0-based) and
\* the shift t relative to the wrapped positions.
CandidateAt(f, k) ==
    LET n  == Len(f.index.positions)
        r  == k \div n
        r2 == r \div ShellDim(f, 3)
    IN  [ j |-> k % n,
          t |-> << (r2 \div ShellDim(f, 2)) - f.index.shells[1],
                   (r2 % ShellDim(f, 2)) - f.index.shells[2],
                   (r % ShellDim(f, 3)) - f.index.shells[3] >> ]

\* The periodic shift reported for candidate c seen from particle i: how
\* often the vector from i to the image crosses each periodic boundary,
\* counted from the particles' given (unwrapped) positions.
PbcShiftOf(f, i, c) ==
    VAdd(VSub(c.t, f.index.wrap[c.j + 1]), f.index.wrap[i + 1])

\* The vector from particle i to the image of candidate c.
DeltaOf(f, i, c) ==
    VSub(VAdd(f.index.positions[c.j + 1],
              Combine(f.index.simCell.matrix, PbcShiftOf(f, i, c))),
         f.index.positions[i + 1])

\* The acceptance test of the query: not the central particle itself (zero
\* shift), and squared distance within the squared cutoff (inclusive).
Accepts(f, i, c) ==
    /\ ~(c.j = i /\ c.t = Zero3)
    /\ Dot(DeltaOf(f, i, c), DeltaOf(f, i, c)) <= f.index.cutoffRadiusSquared

\* The candidates of one row of image cells: those that share the first two
\* shift components.
RowLength(f) == Len(f.index.positions) * ShellDim(f, 3)

RECURSIVE NextAccepted(_, _, _)
\* The first accepted candidate at or after k, or NumCandidates(f): the
\* first one accepted in the rest of k's row, else in the rows after it.
NextAccepted(f, i, k) ==
    IF k >= NumCandidates(f) THEN NumCandidates(f)
    ELSE LET rowEnd == (k \div RowLength(f) + 1) * RowLength(f) - 1
             hits   == { c \in k..rowEnd : Accepts(f, i, CandidateAt(f, c)) }
         IN  IF hits /= {}
             THEN CHOOSE c \in hits : \A d \in hits : c <= d
             ELSE NextAccepted(f, i, rowEnd + 1)

\* Query.next(): move to the next neighbor, or to the end.
QueryNext(f, q) ==
    LET k == NextAccepted(f, q.center, q.cursor + 1)
    IN  IF k >= NumCandidates(f)
        THEN [q EXCEPT !.cursor = k, !.atEnd = TRUE]
        ELSE LET c == CandidateAt(f, k)
                 v == DeltaOf(f, q.center, c)
             IN  [ center          |-> q.center,
                   cursor          |-> k,
                   atEnd           |-> FALSE,
                   current         |-> c.j,
                   distanceSquared |-> Dot(v, v),
                   delta           |-> v,
                   pbcShift        |-> PbcShiftOf(f, q.center, c) ]

\* Query(finder, index): a query positioned on the first neighbor.
Query(f, index) ==
    QueryNext(f, [ center |-> index, cursor |-> -1, atEnd |-> FALSE,
                   current |-> -1, distanceSquared |-> 0,
                   delta |-> Zero3, pbcShift |-> Zero3 ])

(***************************************************************************)
(* The Python class ovito.data.CutoffNeighborFinder.                        *)
(***************************************************************************)
\* hasattr(data_collection, name): DataCollection.__getattr__ finds a data
\* object with that attribute name.
HasAttr(dc, name) == name \in DOMAIN dc

\* Variant: a data collection without particles refused after the two
\* hasattr checks.
CutoffNeighborFinder__init__RejectsEmpty(c, dc) ==
    IF ~HasAttr(dc, "position") \/ ~HasAttr(dc, "cell")
    THEN [ state |-> "failed", error |-> "KeyError", attrs |-> {},
           particle_count |-> 0, prepared |-> FALSE ]
    ELSE IF Len(dc["position"]) = 0 \/ PrepareFails(c, dc["cell"])
    THEN [ state |-> "failed", error |-> "ConfigurationError",
           attrs |-> {"particle_count"},
           particle_count |-> Len(dc["position"]), prepared |-> FALSE ]
    ELSE [ state |-> "ready", error |-> "",
           attrs |-> {"particle_count"},
           particle_count |-> Len(dc["position"]), prepared |-> TRUE,
           index |-> Prepared(c, dc["position"], dc["cell"]) ]

\* Variant: the particle count taken right after the first hasattr check,
\* before the cell is looked for.
CutoffNeighborFinder__init__CountFirst(c, dc) ==
    IF ~HasAttr(dc, "position")
    THEN [ state |-> "failed", error |-> "KeyError", attrs |-> {},
           particle_count |-> 0, prepared |-> FALSE ]
    ELSE IF ~HasAttr(dc, "cell")
    THEN [ state |-> "failed", error |-> "KeyError",
           attrs |-> {"particle_count"},
           particle_count |-> Len(dc["position"]), prepared |-> FALSE ]
    ELSE IF PrepareFails(c, dc["cell"])
    THEN [ state |-> "failed", error |-> "ConfigurationError",
           attrs |-> {"particle_count"},
           particle_count |-> Len(dc["position"]), prepared |-> FALSE ]
    ELSE [ state |-> "ready", error |-> "",
           attrs |-> {"particle_count"},
           particle_count |-> Len(dc["position"]), prepared |-> TRUE,
           index |-> Prepared(c, dc["position"], dc["cell"]) ]

\* CutoffNeighborFinder.__init__(cutoff, data_collection): the finder object
\* as the constructor leaves it.  state is "ready" when the constructor
\* returned and "failed" when it raised error; attrs are the Python
\* attributes it set on the object before that.
CutoffNeighborFinder__init__(c, dc) ==
    IF ~HasAttr(dc, "position")
    THEN [ state |-> "failed", error |-> "KeyError", attrs |-> {},
           particle_count |-> 0, prepared |-> FALSE ]
    ELSE IF ~HasAttr(dc, "cell")
    THEN [ state |-> "failed", error |-> "KeyError", attrs |-> {},
           particle_count |-> 0, prepared |-> FALSE ]
    ELSE IF PrepareFails(c, dc["cell"])
    THEN [ state |-> "failed", error |-> "ConfigurationError",
           attrs |-> {"particle_count"},
           particle_count |-> Len(dc["position"]), prepared |-> FALSE ]
    ELSE [ state |-> "ready", error |-> "",
           attrs |-> {"particle_count"},
           particle_count |-> Len(dc["position"]), prepared |-> TRUE,
           index |-> Prepared(c, dc["position"], dc["cell"]) ]

\* math.sqrt on a squared length: the distance in units of 1/DistResolution,
\* rounded down.
MathSqrt(x) == ISqrt(x * DistResolution * DistResolution)

\* Variant: "index <= 0" for "index < 0".
IndexOutOfRangeLeZero(f, index) == index <= 0 \/ index >= f.particle_count

\* Variant: the upper bound taken one too low.
IndexOutOfRangeLast(f, index) == index < 0 \/ index >= f.particle_count - 1

\* Variant: the finder keeps the data collection and also checks the index
\* against the number of particles the collection holds now.
IndexOutOfRangeLive(f, index) ==
    index < 0 \/ index >= f.particle_count \/ index >= Len(data["position"])

\* The bounds check at the head of find().
IndexOutOfRange(f, index) == index < 0 \/ index >= f.particle_count

\* Variant: the squared distance handed out in place of the distance.
YieldTupleNoSqrt(q) ==
    << q.current, q.distanceSquared, q.delta, q.pbcShift >>

\* Variant: the central index handed out in place of the neighbor's.
YieldTupleCentral(q) ==
    << q.center, MathSqrt(q.distanceSquared), q.delta, q.pbcShift >>

\* Variant: the neighbor's index counted from one.
YieldTupleOneBased(q) ==
    << q.current + 1, MathSqrt(q.distanceSquared), q.delta, q.pbcShift >>

\* Variant: "tuple(query.delta)" written twice, the second in place of the
\* periodic shift.
YieldTupleDeltaAsShift(q) ==
    << q.current, MathSqrt(q.distanceSquared), q.delta, q.delta >>

\* Variant: the last two components in the other order.
YieldTupleSwapped(q) ==
    << q.current, MathSqrt(q.distanceSquared), q.pbcShift, q.delta >>

\* The tuple find() yields for the query's current neighbor.
YieldTuple(q) ==
    << q.current, MathSqrt(q.distanceSquared), q.delta, q.pbcShift >>

NoQuery == [ atEnd |-> TRUE ]

NoGen == [ pc |-> "none", index |-> 0, query |-> NoQuery,
           yielded |-> << >>, error |-> "" ]

\* The generator object find(index) returns: nothing of the body has run.
NewGen(index) == [ NoGen EXCEPT !.pc = "created", !.index = index ]

\* The loop "while not query.atEnd: yield ...": suspend at the yield with the
\* tuple handed out, or fall off the end of the generator.
LoopHead(gen, q) ==
    IF ~q.atEnd
    THEN [ gen EXCEPT !.pc = "suspended", !.query = q,
                      !.yielded = Append(gen.yielded, YieldTuple(q)) ]
    ELSE [ gen EXCEPT !.pc = "done", !.query = q ]

\* Variant: an extra query.next() before the loop is entered.
GenResumeSkipFirst(f, gen) ==
    IF gen.pc = "created"
    THEN IF IndexOutOfRange(f, gen.index)
         THEN [ gen EXCEPT !.pc = "raised", !.error = "IndexError" ]
         ELSE LoopHead(gen, QueryNext(f, Query(f, gen.index)))
    ELSE IF gen.pc \in {"done", "raised"} THEN gen
    ELSE LoopHead(gen, QueryNext(f, gen.query))

\* Variant: "if not query.atEnd" for "while not query.atEnd".
GenResumeOnce(f, gen) ==
    IF gen.pc = "created"
    THEN IF IndexOutOfRange(f, gen.index)
         THEN [ gen EXCEPT !.pc = "raised", !.error = "IndexError" ]
         ELSE LoopHead(gen, Query(f, gen.index))
    ELSE IF gen.pc \in {"done", "raised"} THEN gen
    ELSE [ gen EXCEPT !.pc = "done" ]

\* Variant: the loop body without its query.next().
GenResumeNoAdvance(f, gen) ==
    IF gen.pc = "created"
    THEN IF IndexOutOfRange(f, gen.index)
         THEN [ gen EXCEPT !.pc = "raised", !.error = "IndexError" ]
         ELSE LoopHead(gen, Query(f, gen.index))
    ELSE IF gen.pc \in {"done", "raised"} THEN gen
    ELSE LoopHead(gen, gen.query)

\* Variant: next() on a generator that has ended runs the body again from
\* its top instead of finding the generator exhausted.
GenResumeRestarts(f, gen) ==
    IF gen.pc = "created"
    THEN IF IndexOutOfRange(f, gen.index)
         THEN [ gen EXCEPT !.pc = "raised", !.error = "IndexError" ]
         ELSE LoopHead(gen, Query(f, gen.index))
    ELSE IF gen.pc = "raised" THEN gen
    ELSE IF gen.pc = "done" THEN LoopHead(gen, Query(f, gen.index))
    ELSE LoopHead(gen, QueryNext(f, gen.query))

\* One next() on the generator: the body of find() runs from where it stands
\* to its next yield, its end, or a raise.  A generator whose body has ended
\* or raised runs nothing more: next() finds it exhausted (StopIteration).
GenResume(f, gen) ==
    IF gen.pc = "created"
    THEN IF IndexOutOfRange(f, gen.index)
         THEN [ gen EXCEPT !.pc = "raised", !.error = "IndexError" ]
         ELSE LoopHead(gen, Query(f, gen.index))
    ELSE IF gen.pc \in {"done", "raised"} THEN gen
    ELSE LoopHead(gen, QueryNext(f, gen.query))

(***************************************************************************)
(* The inputs.                                                             *)
(***************************************************************************)
\* Cell geometries <<matrix, origin>>: cubic of side 4 and of side 3,
\* orthorhombic, triclinic, left-handed (negative determinant), zero-volume.
CellShapes ==
    { << << <<4, 0, 0>>, <<0, 4, 0>>, <<0, 0, 4>> >>, Zero3 >>,
      << << <<3, 0, 0>>, <<0, 3, 0>>, <<0, 0, 3>> >>, Zero3 >>,
      << << <<3, 0, 0>>, <<0, 4, 0>>, <<0, 0, 5>> >>, <<-1, 0, 0>> >>,
      << << <<4, 0, 0>>, <<2, 4, 0>>, <<0, 0, 4>> >>, Zero3 >>,
      << << <<0, 4, 0>>, <<4, 0, 0>>, <<0, 0, 4>> >>, <<0, -1, 0>> >>,
      << << <<4, 0, 0>>, <<8, 0, 0>>, <<0, 0, 4>> >>, Zero3 >> }

PbcFlags == { <<FALSE, FALSE, FALSE>>, <<FALSE, TRUE, TRUE>>, <<TRUE, TRUE, TRUE>> }

Cells == { [ matrix |-> sh[1], origin |-> sh[2], pbc |-> fl ] :
            sh \in CellShapes, fl \in PbcFlags }

\* Particle positions: on a cell corner, inside a cell or on a cell face,
\* and outside every cell above.  The first two are exactly 2 apart, the
\* first and the third sqrt(21), the last two sqrt(29).
Points == { Zero3, <<2, 0, 0>>, <<-1, -2, 4>> }

PointSets == UNION { [1..n -> Points] : n \in 0..MaxParticles }

Cutoffs == { -1, 0, 2, 5 }

\* The data collections a script hands to the constructor: with both data
\* objects, or with one or both missing.
DataCollections ==
    { [ a \in {"position", "cell"} |-> IF a = "position" THEN ps ELSE c ] :
        ps \in PointSets, c \in Cells }
    \cup { [ a \in {"position"} |-> ps ] : ps \in { << >>, << Zero3 >> } }
    \cup { [ a \in {"cell"} |-> c ] : c \in Cells }
    \cup { << >> }

\* The cube scenario: 8 particles on the corners of a cube of side 10 in a
\* fully periodic cubic cell of side 10, cutoff 10.1 (lengths in units of 0.1).
CubeCorners ==
    << <<0, 0, 0>>, <<100, 0, 0>>, <<0, 100, 0>>, <<100, 100, 0>>,
       <<0, 0, 100>>, <<100, 0, 100>>, <<0, 100, 100>>, <<100, 100, 100>> >>

CubeCell ==
    [ matrix |-> << <<100, 0, 0>>, <<0, 100, 0>>, <<0, 0, 100>> >>,
      origin |-> Zero3, pbc |-> <<TRUE, TRUE, TRUE>> ]

CubeData == [ a \in {"position", "cell"} |->
                IF a = "position" THEN CubeCorners ELSE CubeCell ]

\* 10 length units of 10 tenths each.
CubeSide == 10 * 10

CubeCutoff == CubeSide + 1

(***************************************************************************)
(* The state machine.                                                      *)
(***************************************************************************)
GenSlots == {1}

Init ==
    /\ \/ data \in DataCollections /\ cutoff \in Cutoffs
       \/ data = CubeData /\ cutoff = CubeCutoff
    /\ finder = NoFinder
    /\ gens = [g \in GenSlots |-> NoGen]
    /\ lists = << >>
    /\ built = data
    /\ dataset = NoDataSet /\ nodes = << >> /\ call = NoCall

\* finder = CutoffNeighborFinder(cutoff, data)
Construct ==
    /\ finder.state = "none"
    /\ finder' = CutoffNeighborFinder__init__(cutoff, data)
    /\ built' = data
    /\ UNCHANGED <<data, cutoff, gens, lists, dataset, nodes, call>>

\* The index arguments the script passes to find(): it sweeps the particles
\* in index order as "for index in range(num_particles)" does, so the next
\* new index is the number of lists built; it may repeat any earlier query,
\* and it may pass an index out of range.
IndexArgs(f, ls) ==
    { i \in (-2) .. (f.particle_count + 1) :
        i < 0 \/ i >= f.particle_count \/ i <= Cardinality(DOMAIN ls) }

\* it = finder.find(index): a generator function only makes the generator.
\* The script may drop the generator it held before, consumed or not.
Find(g) ==
    /\ finder.state = "ready"
    /\ \E index \in IndexArgs(finder, lists) : gens' = [gens EXCEPT ![g] = NewGen(index)]
    /\ UNCHANGED <<data, cutoff, finder, lists, built, dataset, nodes, call>>

\* The script's loop "for n in finder.find(index): ..." building a neighbor
\* list: when the generator ends, the tuples it handed out are the list of
\* its central particle.
Collect(ls, gen) ==
    IF gen.pc = "done" THEN (gen.index :> gen.yielded) @@ ls ELSE ls

\* Variant: the query kept in one place shared by the generators of a
\* finder, so that a next() on one generator also moves the query the
\* other one stands on.
ResumeSharedQuery(g) ==
    /\ gens[g].pc \in {"created", "suspended"}
    /\ gens' = [h \in DOMAIN gens |->
                 IF h = g THEN GenResume(finder, gens[g])
                 ELSE IF gens[h].pc = "suspended" /\ gens[g].pc = "suspended"
                      THEN [gens[h] EXCEPT !.query = QueryNext(finder, gens[h].query)]
                      ELSE gens[h]]
    /\ lists' = Collect(lists, gens'[g])
    /\ UNCHANGED <<data, cutoff, finder, built, dataset, nodes, call>>

\* Variant: find() writes to the finder: once the bounds check has passed it
\* keeps the queried index in self.particle_count.
ResumeStoresIndex(g) ==
    /\ gens[g].pc \in {"created", "suspended"}
    /\ gens' = [gens EXCEPT ![g] = GenResume(finder, gens[g])]
    /\ lists' = Collect(lists, gens'[g])
    /\ finder' = IF gens'[g].pc = "raised" THEN finder
                 ELSE [finder EXCEPT !.particle_count = gens[g].index]
    /\ UNCHANGED <<data, cutoff, built, dataset, nodes, call>>

\* next(it) on a generator the script holds.
Resume(g) ==
    /\ gens[g].pc \in {"created", "suspended", "done", "raised"}
    /\ gens' = [gens EXCEPT ![g] = GenResume(finder, gens[g])]
    /\ lists' = Collect(lists, gens'[g])
    /\ UNCHANGED <<data, cutoff, finder, built, dataset, nodes, call>>

Next ==
    \/ Construct
    \/ \E g \in DOMAIN gens : Find(g)
    \/ \E g \in DOMAIN gens : Resume(g)

Spec == Init /\ [][Next]_vars

(***************************************************************************)
(* What the claims are stated over: the constructor's inputs and the tuples *)
(* a generator has handed out.  A tuple is <<neighbor_index, distance,      *)
(* delta_vector, periodic_shift>>.                                          *)
(***************************************************************************)
(***************************************************************************)
(* Two generators of one finder held at once and advanced in any order.    *)
(***************************************************************************)
\* A few inputs <<data collection, cutoff>>: two particles in a periodic
\* cubic cell smaller than the cutoff; two particles, one outside the cell,
\* in a triclinic cell with one non-periodic axis; two particles in a
\* zero-volume cell without periodic axes; one particle outside a periodic
\* orthorhombic cell.
Scenarios ==
    { << [ a \in {"position", "cell"} |->
            IF a = "position" THEN << Zero3, <<2, 0, 0>> >>
            ELSE [ matrix |-> << <<4, 0, 0>>, <<0, 4, 0>>, <<0, 0, 4>> >>,
                   origin |-> Zero3, pbc |-> <<TRUE, TRUE, TRUE>> ] ], 5 >>,
      << [ a \in {"position", "cell"} |->
            IF a = "position" THEN << <<2, 0, 0>>, <<-1, -2, 4>> >>
            ELSE [ matrix |-> << <<4, 0, 0>>, <<2, 4, 0>>, <<0, 0, 4>> >>,
                   origin |-> Zero3, pbc |-> <<FALSE, TRUE, TRUE>> ] ], 5 >>,
      << [ a \in {"position", "cell"} |->
            IF a = "position" THEN << Zero3, <<2, 0, 0>> >>
            ELSE [ matrix |-> << <<4, 0, 0>>, <<8, 0, 0>>, <<0, 0, 4>> >>,
                   origin |-> Zero3, pbc |-> <<FALSE, FALSE, FALSE>> ] ], 2 >>,
      << [ a \in {"position", "cell"} |->
            IF a = "position" THEN << <<-1, -2, 4>> >>
            ELSE [ matrix |-> << <<3, 0, 0>>, <<0, 4, 0>>, <<0, 0, 5>> >>,
                   origin |-> <<-1, 0, 0>>, pbc |-> <<TRUE, TRUE, TRUE>> ] ], 2 >> }

PairSlots == {1, 2}

InitPair ==
    /\ \E sc \in Scenarios : data = sc[1] /\ cutoff = sc[2]
    /\ finder = NoFinder
    /\ gens = [g \in PairSlots |-> NoGen]
    /\ lists = << >>
    /\ built = data
    /\ dataset = NoDataSet /\ nodes = << >> /\ call = NoCall

SpecPair == InitPair /\ [][Next]_vars

(***************************************************************************)
(* The script changing its data after the finder has been built.           *)
(***************************************************************************)
\* What the data collection the finder was built from can be changed to: a
\* particle moved, a particle added, the last particle removed, or the cell
\* (geometry or periodic flags) replaced.
Edits(dc) ==
    { [dc EXCEPT !["position"][j] = p] : j \in 1..Len(dc["position"]), p \in Points }
    \cup { [dc EXCEPT !["position"] = Append(@, p)] : p \in Points }
    \cup { [dc EXCEPT !["position"] = SubSeq(@, 1, Len(@) - 1)] }
    \cup { [dc EXCEPT !["cell"] = c] : c \in Cells }

\* The data is changed at any point before a generator has ended.  (A change
\* made while the script holds only ended generators is, for every later
\* query, the change made right after the next find call.)
Mutate ==
    /\ finder.state = "ready"
    /\ \A g \in DOMAIN gens : gens[g].pc \notin {"done", "raised"}
    /\ data' \in Edits(built) \ {data}
    /\ UNCHANGED <<cutoff, finder, gens, lists, built, dataset, nodes, call>>

InitMut ==
    /\ \E sc \in Scenarios : data = sc[1] /\ cutoff = sc[2]
    /\ finder = NoFinder
    /\ gens = [g \in GenSlots |-> NoGen]
    /\ lists = << >>
    /\ built = data
    /\ dataset = NoDataSet /\ nodes = << >> /\ call = NoCall

NextMut == Next \/ Mutate

SpecMut == InitMut /\ [][NextMut]_vars

InPositions == data["position"]

InCell == data["cell"]

NumParticles == Len(InPositions)

Pos(j) == InPositions[j + 1]

Records(g) == { gens[g].yielded[n] : n \in 1..Len(gens[g].yielded) }

\* d is the length of the vector v, to the resolution distances are kept at.
IsLengthOf(d, v) ==
    /\ d >= 0
    /\ d * d <= Dot(v, v) * DistResolution * DistResolution
    /\ Dot(v, v) * DistResolution * DistResolution < (d + 1) * (d + 1)

\* The vector from particle i to the image of particle j under shift s.
ImageVector(i, j, s) ==
    VSub(VAdd(Pos(j), Combine(InCell.matrix, s)), Pos(i))

WithinCutoff(v) == Dot(v, v) <= cutoff * cutoff

\* The shifts a claim about "every integer shift" ranges over: zero on the
\* non-periodic axes, up to MaxShift in magnitude on the periodic ones.
ShiftRange(k) == IF InCell.pbc[k] THEN (0 - MaxShift) .. MaxShift ELSE {0}

AllShifts == { <<a, b, c>> : a \in ShiftRange(1), b \in ShiftRange(2), c \in ShiftRange(3) }

\* C1 (exactness): every tuple a find(i) has produced has distance <= cutoff,
\* squared length of its delta vector <= cutoff^2, and its distance is the
\* length of its delta vector.
C1_Exactness ==
    \A g \in DOMAIN gens : \A r \in Records(g) :
        /\ r[2] <= cutoff * DistResolution
        /\ WithinCutoff(r[3])
        /\ IsLengthOf(r[2], r[3])

\* A finished query that produced a neighbor at exactly the cutoff distance
\* and one whose distance is not a whole number of distance units.
C1_Witness ==
    \E g \in DOMAIN gens :
        /\ gens[g].pc = "done"
        /\ \E r \in Records(g) : r[2] = cutoff * DistResolution
        /\ \E r \in Records(g) : r[2] * r[2] < Dot(r[3], r[3]) * DistResolution * DistResolution

\* C2 (completeness, non-periodic): with all three periodic flags false, a
\* fully consumed find(i) holds, for every j /= i within the cutoff of i
\* (inclusive), a tuple with neighbor_index j, shift (0,0,0), delta vector
\* points[j] - points[i] and the matching distance.
C2_NonPeriodicComplete ==
    \A g \in DOMAIN gens :
        (gens[g].pc = "done" /\ ~AnyPeriodic(InCell)) =>
            \A j \in 0..(NumParticles - 1) :
                (j /= gens[g].index /\ WithinCutoff(VSub(Pos(j), Pos(gens[g].index)))) =>
                    \E r \in Records(g) :
                        /\ r[1] = j
                        /\ r[4] = Zero3
                        /\ r[3] = VSub(Pos(j), Pos(gens[g].index))
                        /\ IsLengthOf(r[2], VSub(Pos(j), Pos(gens[g].index)))

\* A finished query in a non-periodic cell around a particle that has another
\* particle at exactly the cutoff distance.
C2_Witness ==
    \E g \in DOMAIN gens :
        /\ gens[g].pc = "done"
        /\ ~AnyPeriodic(InCell)
        /\ \E j \in 0..(NumParticles - 1) :
              /\ j /= gens[g].index
              /\ Dot(VSub(Pos(j), Pos(gens[g].index)), VSub(Pos(j), Pos(gens[g].index)))
                    = cutoff * cutoff
              /\ \E r \in Records(g) : r[1] = j

\* C3 (completeness, periodic): a fully consumed find(i) holds a tuple for
\* every particle j and every shift s (zero on the non-periodic axes) whose
\* image points[j] + s*cell lies within the cutoff of points[i], except
\* (j, s) = (i, zero).
C3_PeriodicComplete ==
    \A g \in DOMAIN gens :
        gens[g].pc = "done" =>
            \A j \in 0..(NumParticles - 1) : \A s \in AllShifts :
                (/\ WithinCutoff(ImageVector(gens[g].index, j, s))
                 /\ ~(j = gens[g].index /\ s = Zero3)) =>
                    \E r \in Records(g) : r[1] = j /\ r[4] = s

\* A finished query that produced an image more than one cell away along an
\* axis.
C3_Witness ==
    \E g \in DOMAIN gens :
        /\ gens[g].pc = "done"
        /\ \E r \in Records(g) : \E k \in Axes : Abs(r[4][k]) >= 2

\* C4 (each image once): among the tuples of one find(i), no two share
\* (neighbor_index, periodic_shift), and no two with the same neighbor_index
\* share the delta vector.
C4_EachImageOnce ==
    \A g \in DOMAIN gens :
        \A m, n \in 1..Len(gens[g].yielded) :
            (m /= n /\ gens[g].yielded[m][1] = gens[g].yielded[n][1]) =>
                /\ gens[g].yielded[m][4] /= gens[g].yielded[n][4]
                /\ gens[g].yielded[m][3] /= gens[g].yielded[n][3]

\* A finished query in which one neighbor index came up more than once.
C4_Witness ==
    \E g \in DOMAIN gens :
        /\ gens[g].pc = "done"
        /\ \E m, n \in 1..Len(gens[g].yielded) :
              m /= n /\ gens[g].yielded[m][1] = gens[g].yielded[n][1]

\* C5 (no self-pair): find(i) never produces a tuple with neighbor_index i
\* and shift (0,0,0).
C5_NoSelfPair ==
    \A g \in DOMAIN gens : \A r \in Records(g) :
        ~(r[1] = gens[g].index /\ r[4] = Zero3)

\* A query that produced its own central particle, and another particle at
\* zero shift.
C5_Witness ==
    \E g \in DOMAIN gens :
        /\ \E r \in Records(g) : r[1] = gens[g].index
        /\ \E r \in Records(g) : r[1] /= gens[g].index /\ r[4] = Zero3

\* A fully periodic cubic cell of side L > 0 holding one particle at the
\* origin, with cutoff > L.
SmallCubicCell ==
    /\ finder.state = "ready"
    /\ InPositions = << Zero3 >>
    /\ InCell.pbc = <<TRUE, TRUE, TRUE>>
    /\ InCell.matrix[1][1] > 0
    /\ InCell.matrix = << <<InCell.matrix[1][1], 0, 0>>,
                          <<0, InCell.matrix[1][1], 0>>,
                          <<0, 0, InCell.matrix[1][1]>> >>
    /\ cutoff > InCell.matrix[1][1]

\* C6 (self-neighbor in a small periodic cell): in such a cell a finished
\* find(0) ran to its end and holds a tuple with neighbor_index 0 and a
\* non-zero periodic shift.
C6_SelfNeighbor ==
    \A g \in DOMAIN gens :
        (SmallCubicCell /\ gens[g].index = 0 /\ gens[g].pc \in {"done", "raised"}) =>
            /\ gens[g].pc = "done"
            /\ \E r \in Records(g) : r[1] = 0 /\ r[4] /= Zero3

\* A finished find(0) in a small cubic cell.
C6_Witness ==
    \E g \in DOMAIN gens :
        SmallCubicCell /\ gens[g].index = 0 /\ gens[g].pc = "done"

ListRecords(i) == { lists[i][n] : n \in 1..Len(lists[i]) }

\* C7 (symmetry): once the lists of i and of j are built, every tuple
\* (j, d, v, s) in the list of i has its mirror (i, d, -v, -s) in the list
\* of j.
C7_Symmetry ==
    \A i \in DOMAIN lists : \A j \in DOMAIN lists :
        \A r \in ListRecords(i) :
            r[1] = j => << i, r[2], VNeg(r[3]), VNeg(r[4]) >> \in ListRecords(j)

\* Two different particles with their lists built, one a neighbor of the
\* other across a periodic boundary.
C7_Witness ==
    \E i \in DOMAIN lists : \E j \in DOMAIN lists :
        /\ i /= j
        /\ \E r \in ListRecords(i) : r[1] = j /\ r[4] /= Zero3

\* The cube scenario is the configuration under the finder.
CubeScenario == data = CubeData /\ cutoff = CubeCutoff

\* C8 (cube scenario): a finished find(i) of any of the 8 corner particles
\* holds exactly 7 distinct neighbor indices other than i among its tuples
\* at distance 10.
C8_CubeScenario ==
    \A g \in DOMAIN gens :
        (CubeScenario /\ gens[g].pc = "done") =>
            Cardinality({ r[1] : r \in { x \in Records(g) :
                                    x[2] = CubeSide * DistResolution
                                    /\ x[1] /= gens[g].index } }) = 7

\* The cube scenario with the neighbor lists of all 8 particles built.
C8_Witness == CubeScenario /\ Cardinality(DOMAIN lists) = 8

\* C9 (index bounds): a find(index) that has been run fails with IndexError
\* and without any tuple when index < 0 or index >= N, and does not fail
\* when 0 <= index < N.
C9_IndexBounds ==
    \A g \in DOMAIN gens :
        gens[g].pc \in {"suspended", "done", "raised"} =>
            IF gens[g].index < 0 \/ gens[g].index >= NumParticles
            THEN /\ gens[g].pc = "raised"
                 /\ gens[g].error = "IndexError"
                 /\ gens[g].yielded = << >>
            ELSE /\ gens[g].pc /= "raised"
                 /\ gens[g].error = ""

\* find(N) has failed on a finder whose valid indices had been queried.
C9_Witness ==
    \E g \in DOMAIN gens :
        /\ gens[g].pc = "raised"
        /\ gens[g].index = NumParticles
        /\ NumParticles > 0
        /\ Cardinality(DOMAIN lists) = NumParticles

\* C10 (degenerate configuration): on a data collection with positions and
\* a cell, the constructor fails with ConfigurationError when the cell has
\* zero volume and some periodic flag is set, and succeeds when no periodic
\* flag is set and cutoff > 0, whatever the cell volume.
C10_DegenerateCell ==
    (finder.state /= "none" /\ HasAttr(data, "position") /\ HasAttr(data, "cell")) =>
        /\ (IsDegenerate(InCell) /\ AnyPeriodic(InCell)) =>
              finder.state = "failed" /\ finder.error = "ConfigurationError"
        /\ (~AnyPeriodic(InCell) /\ cutoff > 0) => finder.state = "ready"

\* The constructor has rejected a zero-volume cell with a periodic axis,
\* given a positive cutoff.
C10_Witness ==
    /\ finder.state = "failed"
    /\ finder.error = "ConfigurationError"
    /\ cutoff > 0
    /\ IsDegenerate(InCell)
    /\ AnyPeriodic(InCell)


\* C11 (cutoff <= 0): constructing a finder with a cutoff that is zero or
\* negative, from a data collection that holds positions and a cell, fails
\* with ConfigurationError, and there is no finder to query: no generator
\* has been made.
C11_NonPositiveCutoff ==
    ( /\ finder.state # "none"
      /\ HasAttr(built, "position") /\ HasAttr(built, "cell")
      /\ cutoff <= 0 ) =>
        /\ finder.state = "failed"
        /\ finder.error = "ConfigurationError"
        /\ ~finder.prepared
        /\ \A g \in DOMAIN gens : gens[g].pc = "none"

\* The constructor has run with cutoff 0 on particles in a cell of
\* non-zero volume.
C11_Witness ==
    /\ finder.state = "failed"
    /\ cutoff = 0
    /\ HasAttr(built, "position") /\ HasAttr(built, "cell")
    /\ Len(built["position"]) > 0
    /\ ~IsDegenerate(built["cell"])


\* Where a point lies along cell axis k: its reduced coordinate is
\* ReducedNum / Determinant, 0 and 1 on the two cell faces of that axis.
ReducedNum(cell, p, k) == Dot(VSub(p, cell.origin), CellNormal(cell.matrix, k))

OutsideAlong(cell, p, k) ==
    /\ ~IsDegenerate(cell)
    /\ FloorDiv(ReducedNum(cell, p, k), Determinant(cell.matrix)) # 0
    /\ ReducedNum(cell, p, k) # Determinant(cell.matrix)

OnBoundaryAlong(cell, p, k) ==
    /\ ~IsDegenerate(cell)
    /\ ReducedNum(cell, p, k) \in {0, Determinant(cell.matrix)}

\* C12 (neighbor index range): every tuple a find(i) has produced names a
\* neighbor index n with 0 <= n < N, N the number of particles.
C12_NeighborIndexRange ==
    \A g \in DOMAIN gens : \A r \in Records(g) :
        r[1] >= 0 /\ r[1] < NumParticles

\* A finished query over two or more particles that produced tuples for the
\* first and for the last particle.
C12_Witness ==
    \E g \in DOMAIN gens :
        /\ gens[g].pc = "done"
        /\ NumParticles >= 2
        /\ \E r \in Records(g) : r[1] = 0
        /\ \E r \in Records(g) : r[1] = NumParticles - 1

\* C13 (non-periodic axes): in every tuple the periodic_shift component of
\* each axis whose periodic flag is false is 0, wherever the points lie
\* along that axis.
C13_NonPeriodicAxisZero ==
    \A g \in DOMAIN gens : \A r \in Records(g) : \A k \in Axes :
        ~InCell.pbc[k] => r[4][k] = 0

\* A query in a cell with one non-periodic axis produced a tuple with a
\* non-zero shift for a neighbor that lies outside the cell along the
\* non-periodic axis.
C13_Witness ==
    \E g \in DOMAIN gens : \E k \in Axes :
        /\ finder.state = "ready"
        /\ ~InCell.pbc[k]
        /\ AnyPeriodic(InCell)
        /\ \E r \in Records(g) :
              /\ r[4] # Zero3
              /\ OutsideAlong(InCell, Pos(r[1]), k)

\* C14 (delta vector identity): every tuple (j, d, v, s) of find(i) has
\* v = points[j] + s[1]*a + s[2]*b + s[3]*c - points[i], a, b, c the cell
\* vectors, also when points lie outside the cell.
C14_DeltaIdentity ==
    \A g \in DOMAIN gens : \A r \in Records(g) :
        r[3] = ImageVector(gens[g].index, r[1], r[4])

\* A tuple with a non-zero shift between a central particle inside the cell
\* and a neighbor outside it along a periodic axis.
C14_Witness ==
    \E g \in DOMAIN gens : \E r \in Records(g) : \E k \in Axes :
        /\ finder.state = "ready"
        /\ InCell.pbc[k]
        /\ r[4] # Zero3
        /\ OutsideAlong(InCell, Pos(r[1]), k)
        /\ \A a \in Axes : ~OutsideAlong(InCell, Pos(gens[g].index), a)


\* How many candidates a generator's query has still to look at; one more
\* before the query exists, none once the generator has ended.
Remaining(f, gen) ==
    IF gen.pc = "created" THEN NumCandidates(f) + 1
    ELSE IF gen.pc = "suspended" THEN NumCandidates(f) - gen.query.cursor
    ELSE 0

\* C15 (termination): consuming find(index) ends after finitely many
\* tuples: every next() on a generator either ends it or strictly lowers
\* the number of candidates its query has left, which is never negative,
\* and the tuples handed out never outnumber the candidates; this also
\* with a cutoff larger than the cell, when several image shells are
\* scanned.
C15_Terminates ==
    [][ \A g \in DOMAIN gens :
            ( /\ gens[g].pc \in {"created", "suspended"}
              /\ gens'[g] # gens[g]
              /\ gens'[g].pc # "created" ) =>
                /\ Remaining(finder', gens'[g]) >= 0
                /\ Remaining(finder', gens'[g]) < Remaining(finder, gens[g])
                /\ Len(gens'[g].yielded) <= NumCandidates(finder') ]_vars

\* A query that scanned two or more image shells along an axis has ended
\* after handing out tuples.
C15_Witness ==
    \E g \in DOMAIN gens :
        /\ gens[g].pc = "done"
        /\ Len(gens[g].yielded) > 0
        /\ \E k \in Axes : finder.index.shells[k] >= 2


RecordSet(tuples) == { tuples[n] : n \in 1..Len(tuples) }

\* C16 (repeatable queries): a find(index) on a finder whose find(index)
\* was fully consumed before ends, when fully consumed, with the same set
\* of tuples, whatever other find calls were made and consumed, dropped or
\* failed in between.
C16_RepeatableQueries ==
    [][ \A g \in DOMAIN gens :
            ( /\ gens[g].pc \in {"created", "suspended"}
              /\ gens'[g].pc \in {"done", "raised"}
              /\ gens[g].index \in DOMAIN lists ) =>
                /\ gens'[g].pc = "done"
                /\ RecordSet(gens'[g].yielded) = RecordSet(lists[gens[g].index]) ]_vars

\* find(0) has been fully consumed a second time after find(1) was fully
\* consumed: the script sweeps the indices in order, so the list of
\* particle 1 exists only after a first find(0) has ended, and the one
\* generator the script holds is a later find(0).  The two lists differ.
C16_Witness ==
    \E g \in DOMAIN gens :
        /\ gens[g].pc = "done"
        /\ gens[g].index = 0
        /\ 1 \in DOMAIN lists
        /\ Len(gens[g].yielded) > 0
        /\ RecordSet(lists[1]) # RecordSet(lists[0])

\* C17 (find leaves the finder alone): no find call and no next() on a
\* generator, whether the generator is consumed in part or to its end and
\* whether its index is in range or not, changes the finder (cutoff, stored
\* particle count, spatial index), the points or the cell.
C17_FindFrame ==
    [][ gens' # gens =>
            /\ finder' = finder
            /\ cutoff' = cutoff
            /\ data' = data
            /\ built' = built ]_vars

\* A generator consumed in part, after another was consumed to its end,
\* with the finder as the constructor left it.
C17_Witness ==
    \E g \in DOMAIN gens :
        /\ gens[g].pc = "suspended"
        /\ Len(gens[g].yielded) > 0
        /\ lists # << >>
        /\ finder = CutoffNeighborFinder__init__(cutoff, built)


\* The tuples a complete query around particle i of the given positions and
\* cell holds by the definition of the neighbor relation: one for every
\* particle j and shift s (zero on the non-periodic axes) whose image lies
\* within cutoff c of particle i, except particle i under the zero shift.
ShiftsOf(cell) ==
    { <<a, b, c>> : a \in (IF cell.pbc[1] THEN (0 - MaxShift) .. MaxShift ELSE {0}),
                    b \in (IF cell.pbc[2] THEN (0 - MaxShift) .. MaxShift ELSE {0}),
                    c \in (IF cell.pbc[3] THEN (0 - MaxShift) .. MaxShift ELSE {0}) }

ImageOf(ps, cell, i, j, s) ==
    VSub(VAdd(ps[j + 1], Combine(cell.matrix, s)), ps[i + 1])

ExpectedRecords(ps, cell, c, i) ==
    LET within == { x \in (0 .. (Len(ps) - 1)) \X ShiftsOf(cell) :
                      LET v == ImageOf(ps, cell, i, x[1], x[2])
                      IN  ~(x[1] = i /\ x[2] = Zero3) /\ Dot(v, v) <= c * c }
        TupleOf(x) == LET v == ImageOf(ps, cell, i, x[1], x[2])
                      IN  << x[1], MathSqrt(Dot(v, v)), v, x[2] >>
    IN  { TupleOf(x) : x \in within }

\* C18 (interleaved queries): with several generators of one finder
\* advanced in any order, each hands out only tuples of the complete result
\* of its own index, each at most once, and ends with exactly that result:
\* what it yields when it runs alone.
C18_Interleaving ==
    \A g \in DOMAIN gens :
        gens[g].pc \in {"suspended", "done"} =>
            LET alone == ExpectedRecords(InPositions, InCell, cutoff, gens[g].index)
            IN  /\ RecordSet(gens[g].yielded) \subseteq alone
                /\ Cardinality(RecordSet(gens[g].yielded)) = Len(gens[g].yielded)
                /\ gens[g].pc = "done" => RecordSet(gens[g].yielded) = alone

\* Two generators for different particles are both part-way through their
\* results, each with two or more tuples handed out.
C18_Witness ==
    /\ DOMAIN gens = PairSlots
    /\ gens[1].pc = "suspended" /\ gens[2].pc = "suspended"
    /\ gens[1].index # gens[2].index
    /\ Len(gens[1].yielded) >= 2 /\ Len(gens[2].yielded) >= 2


\* C19 (snapshot): after the finder is built, moving, adding or removing
\* particles or changing the cell does not change what find produces: a
\* find(i) raises exactly when i is outside 0..N-1 for the N particles of
\* the data the finder was built from, and a fully consumed find(i) holds
\* the complete result for the positions and cell it was built from.
C19_Snapshot ==
    \A g \in DOMAIN gens :
        /\ gens[g].pc \in {"suspended", "done", "raised"} =>
              ( gens[g].pc = "raised" <=>
                  (gens[g].index < 0 \/ gens[g].index >= Len(built["position"])) )
        /\ gens[g].pc = "done" =>
              RecordSet(gens[g].yielded)
                  = ExpectedRecords(built["position"], built["cell"], cutoff, gens[g].index)

\* A query for the last particle of the original data has ended with tuples
\* while the data holds fewer particles than the finder was built from:
\* the particle was removed before the generator ended.
C19_Witness ==
    \E g \in DOMAIN gens :
        /\ gens[g].pc = "done"
        /\ Len(gens[g].yielded) > 0
        /\ gens[g].index = Len(built["position"]) - 1
        /\ Len(data["position"]) < Len(built["position"])


\* C20 as stated (no other failure modes): the constructor fails only when
\* the cutoff is <= 0 or the cell is degenerate with a periodic flag set,
\* and find fails only when its index is outside 0..N-1.
C20_OnlyStatedFailures ==
    /\ finder.state = "failed" =>
          \/ cutoff <= 0
          \/ /\ HasAttr(built, "cell")
             /\ IsDegenerate(built["cell"]) /\ AnyPeriodic(built["cell"])
    /\ \A g \in DOMAIN gens :
          gens[g].pc = "raised" =>
              (gens[g].index < 0 \/ gens[g].index >= NumParticles)

\* C20 (failure modes, amended): the constructor fails exactly when the
\* data collection lacks the positions or the cell (KeyError), or the
\* cutoff is <= 0 or the cell is degenerate with a periodic flag set
\* (ConfigurationError); find fails exactly when its index is outside
\* 0..N-1, with IndexError.  A cutoff larger than half or all of a cell
\* width, a point on a cell boundary and a point outside the cell all give
\* a finder and queries that end with the complete result.
C20_FailureModes ==
    finder.state # "none" =>
        /\ finder.state = "failed" <=>
              \/ ~HasAttr(built, "position") \/ ~HasAttr(built, "cell")
              \/ cutoff <= 0
              \/ (IsDegenerate(InCell) /\ AnyPeriodic(InCell))
        /\ finder.state = "failed" =>
              finder.error = IF ~HasAttr(built, "position") \/ ~HasAttr(built, "cell")
                             THEN "KeyError" ELSE "ConfigurationError"
        /\ \A g \in DOMAIN gens :
              /\ gens[g].pc \in {"suspended", "done", "raised"} =>
                    ( gens[g].pc = "raised" <=>
                        (gens[g].index < 0 \/ gens[g].index >= NumParticles) )
              /\ gens[g].pc = "raised" => gens[g].error = "IndexError"
              /\ gens[g].pc = "done" =>
                    RecordSet(gens[g].yielded)
                        = ExpectedRecords(InPositions, InCell, cutoff, gens[g].index)

\* A finder built with a cutoff larger than the whole cell width (two or
\* more image shells along an axis) has ended a query around a particle that
\* lies on a cell boundary, with a tuple for a neighbor outside the cell.
C20_Witness ==
    \E g \in DOMAIN gens :
        /\ gens[g].pc = "done"
        /\ \E k \in Axes : finder.index.shells[k] >= 2
        /\ \E k \in Axes : OnBoundaryAlong(InCell, Pos(gens[g].index), k)
        /\ \E r \in Records(g) : \E k \in Axes : OutsideAlong(InCell, Pos(r[1]), k)


\* C21 (synchronous IndexError): a find call with an index out of range
\* fails at the call itself, so the script never holds a generator for an
\* index outside 0..N-1 whose failure is still to come.
C21_FailsAtTheCall ==
    \A g \in DOMAIN gens :
        gens[g].pc = "created" =>
            (gens[g].index >= 0 /\ gens[g].index < finder.particle_count)


\* C26 (missing data objects): the constructor raises KeyError when the
\* data collection has no 'position' object, and KeyError when it has
\* positions but no 'cell' object; either way prepare() has not run and no
\* particle count is recorded on the finder.
C26_MissingObjects ==
    ( /\ finder.state # "none"
      /\ ~HasAttr(built, "position") \/ ~HasAttr(built, "cell") ) =>
        /\ finder.state = "failed"
        /\ finder.error = "KeyError"
        /\ ~finder.prepared
        /\ "particle_count" \notin finder.attrs

\* The constructor has run on a data collection that holds a particle but
\* no cell, with a positive cutoff.
C26_Witness ==
    /\ finder.state = "failed"
    /\ HasAttr(built, "position") /\ ~HasAttr(built, "cell")
    /\ Len(built["position"]) > 0
    /\ cutoff > 0


\* The candidates a query accepts among those it has passed, the cursor's
\* one included.
AcceptedUpTo(f, gen) ==
    { c \in 0 .. (NumCandidates(f) - 1) :
        c <= gen.query.cursor /\ Accepts(f, gen.index, CandidateAt(f, c)) }

\* The record of an accepted candidate.
RecordOf(f, i, c) ==
    LET v == DeltaOf(f, i, c)
    IN  << c.j, MathSqrt(Dot(v, v)), v, PbcShiftOf(f, i, c) >>

\* What the generator handed out is, in order, the records of the accepted
\* candidates its query has passed; suspended it stands on the last of
\* them, ended it has passed all candidates.
HandedOutInOrder(f, gen) ==
    LET hits == AcceptedUpTo(f, gen)
    IN  /\ Len(gen.yielded) = Cardinality(hits)
        /\ \A c \in hits :
              gen.yielded[Cardinality({ d \in hits : d <= c })]
                  = RecordOf(f, gen.index, CandidateAt(f, c))
        /\ gen.pc = "suspended" => gen.query.cursor \in hits
        /\ gen.pc = "done" => gen.query.cursor >= NumCandidates(f)

\* C27 (one-shot sequence): what a generator of find(index) has handed out
\* is at every moment the records of the underlying query up to where the
\* query stands, each once and in query order; it ends only with the query
\* at its end and every record handed out; once it has ended or raised, a
\* next() never changes it, and only another find call, which starts with
\* no record handed out, replaces it.
C27_OneShot ==
    [][ \A g \in DOMAIN gens :
            /\ gens'[g].pc \in {"suspended", "done"} =>
                    HandedOutInOrder(finder', gens'[g])
            /\ ( gens[g].pc \in {"done", "raised"} /\ gens'[g] # gens[g] ) =>
                    gens'[g] = NewGen(gens'[g].index) ]_vars

\* A generator has ended after handing out two or more records, on a finder
\* that already served a full enumeration of the same index before.
C27_Witness ==
    \E g \in DOMAIN gens :
        /\ gens[g].pc = "done"
        /\ Len(gens[g].yielded) >= 2
        /\ gens[g].index = 0
        /\ 1 \in DOMAIN lists


(***************************************************************************)
(* The scene: ovito.dataset.scene_nodes, ovito.dataset.selected_node and   *)
(* ovito.io.import_file.                                                   *)
(***************************************************************************)
\* How many ObjectNodes a script gets made.
MaxNodes == 3

\* The members of the ImportMode enumeration.
ImportModes == { "AddToScene", "ReplaceSelected", "ResetScene" }

\* The mode arguments a script passes: the three names and a misspelt one.
ModeArgs == ImportModes \cup { "ReplaceScene" }

\* What a script cannot control during one import_file call: whether the
\* file format is recognised, whether the importer has the keyword
\* parameters given, whether importFile went through (it returns False
\* when the user cancels), whether an import with nothing to replace
\* makes a node of its own, whether waiting for the pipeline was left
\* alone by the user, and the status the evaluated pipeline reports.
ImportEnvs ==
    [ importer : BOOLEAN, params_ok : BOOLEAN, imported : BOOLEAN,
      fresh : BOOLEAN, ready : BOOLEAN,
      status : { "Success", "Warning", "Error" } ]

\* isinstance(node, ovito.scene.ObjectNode): None is not one.
IsObjectNode(node) == node # None

\* DataSet.selected_node, read.
_get_DataSet_selected_node(ds) == ds.selected_node

\* DataSet.selected_node = node: "if node: setNode(node) else: clear()".
_set_DataSet_selected_node(ds, node) ==
    IF node # None THEN [ ds EXCEPT !.selected_node = node ]
    ELSE [ ds EXCEPT !.selected_node = None ]

\* A new ObjectNode is made, put at the end of the scene and selected.
ImportNewNode(ds) ==
    [ scene_nodes   |-> Append(ds.scene_nodes, ds.made + 1),
      selected_node |-> ds.made + 1,
      made          |-> ds.made + 1 ]

\* importer.importFile(location, mode), when it goes through.
importFile(ds, mode, fresh) ==
    IF mode = "AddToScene" THEN ImportNewNode(ds)
    ELSE IF mode = "ResetScene"
    THEN ImportNewNode([ ds EXCEPT !.scene_nodes = << >>, !.selected_node = None ])
    ELSE IF IsObjectNode(ds.selected_node) THEN ds
    ELSE IF fresh THEN ImportNewNode(ds)
    ELSE ds

\* node.wait(signalError): "False" when the user cancels the wait, a
\* RuntimeError when the evaluated pipeline reports an error and
\* signalError is set, else "True".
_ObjectNode_wait(ready, status, signalError) ==
    IF ~ready THEN "False"
    ELSE IF signalError /\ status = "Error" THEN "RuntimeError"
    ELSE "True"

\* How a call ends: the dataset it leaves, the exception it raised ("" when
\* it returned) and what it returned.
Raised(ds, error) == [ dataset |-> ds, raised |-> error, result |-> None ]

Returned(ds, value) == [ dataset |-> ds, raised |-> "", result |-> value ]

\* Variant: the mode argument dropped on the way to importFile.
import_fileDefaultMode(ds, mode, env) ==
    IF mode \notin ImportModes THEN Raised(ds, "KeyError")
    ELSE IF ~env.importer THEN Raised(ds, "RuntimeError")
    ELSE IF ~env.params_ok THEN Raised(ds, "RuntimeError")
    ELSE IF ~env.imported THEN Raised(ds, "RuntimeError")
    ELSE LET after == importFile(ds, "AddToScene", env.fresh)
             node  == _get_DataSet_selected_node(after)
         IN  IF ~IsObjectNode(node) THEN Raised(after, "RuntimeError")
             ELSE IF _ObjectNode_wait(env.ready, env.status, TRUE) # "True"
             THEN Raised(after, "RuntimeError")
             ELSE Returned(after, node)

\* Variant: "return ovito.dataset.scene_nodes[0]" for "return node".
import_fileReturnsFirst(ds, mode, env) ==
    IF mode \notin ImportModes THEN Raised(ds, "KeyError")
    ELSE IF ~env.importer THEN Raised(ds, "RuntimeError")
    ELSE IF ~env.params_ok THEN Raised(ds, "RuntimeError")
    ELSE IF ~env.imported THEN Raised(ds, "RuntimeError")
    ELSE LET after == importFile(ds, mode, env.fresh)
             node  == _get_DataSet_selected_node(after)
         IN  IF ~IsObjectNode(node) THEN Raised(after, "RuntimeError")
             ELSE IF _ObjectNode_wait(env.ready, env.status, TRUE) # "True"
             THEN Raised(after, "RuntimeError")
             ELSE IF after.scene_nodes = << >> THEN Returned(after, node)
             ELSE Returned(after, after.scene_nodes[1])

\* ovito.io.import_file(location, mode, **params).
import_file(ds, mode, env) ==
    IF mode \notin ImportModes THEN Raised(ds, "KeyError")
    ELSE IF ~env.importer THEN Raised(ds, "RuntimeError")
    ELSE IF ~env.params_ok THEN Raised(ds, "RuntimeError")
    ELSE IF ~env.imported THEN Raised(ds, "RuntimeError")
    ELSE LET after == importFile(ds, mode, env.fresh)
             node  == _get_DataSet_selected_node(after)
         IN  IF ~IsObjectNode(node) THEN Raised(after, "RuntimeError")
             ELSE IF _ObjectNode_wait(env.ready, env.status, TRUE) # "True"
             THEN Raised(after, "RuntimeError")
             ELSE Returned(after, node)



(***************************************************************************)
(* The list-like interface of SceneRoot (dataset.scene_nodes).  The        *)
(* children are a sequence of node ids; an index argument is a Python      *)
(* index, counted from 0.                                                  *)
(***************************************************************************)
\* node.parentNode == self
IsChild(children, node) == \E n \in 1..Len(children) : children[n] = node

\* SceneNode.removeChild(child)
removeChild(children, child) == SelectSeq(children, LAMBDA c : c # child)

\* SceneNode.insertChild(index, child): a node has one parent and one place
\* under it; a node that is already a child of this node stays where it is.
insertChild(children, index, child) ==
    IF IsChild(children, child) THEN children
    ELSE SubSeq(children, 1, index) \o << child >>
            \o SubSeq(children, index + 1, Len(children))

\* SceneNode.addChild(child): insertChild at the end.
addChild(children, child) == insertChild(children, Len(children), child)

\* How a SceneRoot call ends: the children it leaves and the exception it
\* raised ("" when it returned).
Children(children, error) == [ children |-> children, raised |-> error ]

\* SceneRoot.__setitem__(index, newNode)
_SceneRoot__setitem__(children, index, newNode) ==
    LET i == IF index < 0 THEN index + Len(children) ELSE index
    IN  IF i < 0 \/ i >= Len(children) THEN Children(children, "IndexError")
        ELSE Children(insertChild(removeChild(children, children[i + 1]), i, newNode), "")

\* SceneRoot.__delitem__(index) with an integer index.
_SceneRoot__delitem__(children, index) ==
    IF index < 0 \/ index >= Len(children) THEN Children(children, "IndexError")
    ELSE Children(removeChild(children, children[index + 1]), "")

\* SceneRoot.__delitem__(node) with an ObjectNode for the index.
_SceneRoot__delitem__node(children, node) ==
    Children(removeChild(children, node), "")

\* Variant: append without its parentNode test.
_SceneRoot_appendUnchecked(children, node) ==
    Children(addChild(children, node), "")

\* SceneRoot.append(node)
_SceneRoot_append(children, node) ==
    IF IsChild(children, node) THEN Children(children, "RuntimeError")
    ELSE Children(addChild(children, node), "")

\* SceneRoot.insert(index, node)
_SceneRoot_insert(children, index, node) ==
    LET i == IF index < 0 THEN index + Len(children) ELSE index
    IN  IF i < 0 \/ i >= Len(children) THEN Children(children, "IndexError")
        ELSE IF IsChild(children, node) THEN Children(children, "RuntimeError")
        ELSE Children(insertChild(children, i, node), "")

(***************************************************************************)
(* A script working on the scene.                                          *)
(***************************************************************************)
\* The neighbor finder's state while no neighbor finder is in use.
FinderIdle ==
    /\ data = << >> /\ cutoff = 0
    /\ finder = NoFinder
    /\ gens = [g \in GenSlots |-> NoGen]
    /\ lists = << >>
    /\ built = data

InitScene ==
    /\ FinderIdle
    /\ dataset = NoDataSet /\ nodes = << >> /\ call = NoCall

\* The ObjectNodes a script holds: those import_file has returned or the
\* scene has listed.
HeldNodes == 1 .. dataset.made

\* The index arguments a script passes to a list of the given length.
ListIndexArgs(len) == (0 - len - 1) .. (len + 1)

\* The selection once the children have changed: whether a node taken out
\* of the scene stays selected is the selection set's business.
SelectionsAfter(ds, children) ==
    IF IsChild(ds.scene_nodes, ds.selected_node) /\ ~IsChild(children, ds.selected_node)
    THEN { ds.selected_node, None }
    ELSE { ds.selected_node }

\* A SceneRoot call has ended with r.
SceneCall(op, index, node, r) ==
    /\ \E sel \in SelectionsAfter(dataset, r.children) :
          dataset' = [ dataset EXCEPT !.scene_nodes = r.children,
                                      !.selected_node = sel ]
    /\ call' = [ op |-> op, args |-> << index, node >>,
                 raised |-> r.raised, result |-> None ]
    /\ UNCHANGED <<finderVars, nodes>>

\* node = import_file(location, mode = ...)
ImportFile ==
    \E mode \in ModeArgs, env \in ImportEnvs :
        LET r == import_file(dataset, mode, env)
        IN  /\ r.dataset.made <= MaxNodes
            /\ dataset' = r.dataset
            /\ call' = [ op |-> "import_file", args |-> << mode >>,
                         raised |-> r.raised, result |-> r.result ]
            /\ UNCHANGED <<finderVars, nodes>>

\* ovito.dataset.selected_node = node, or = None
SetSelectedNode ==
    \E node \in {None} \cup HeldNodes :
        /\ dataset' = _set_DataSet_selected_node(dataset, node)
        /\ call' = [ op |-> "selected_node", args |-> << node >>,
                     raised |-> "", result |-> None ]
        /\ UNCHANGED <<finderVars, nodes>>

\* ovito.dataset.scene_nodes.append(node)
SceneAppend ==
    \E node \in HeldNodes :
        SceneCall("append", 0, node, _SceneRoot_append(dataset.scene_nodes, node))

\* ovito.dataset.scene_nodes.insert(index, node)
SceneInsert ==
    \E index \in ListIndexArgs(Len(dataset.scene_nodes)), node \in HeldNodes :
        SceneCall("insert", index, node,
                  _SceneRoot_insert(dataset.scene_nodes, index, node))

\* ovito.dataset.scene_nodes[index] = node
SceneSetItem ==
    \E index \in ListIndexArgs(Len(dataset.scene_nodes)), node \in HeldNodes :
        SceneCall("__setitem__", index, node,
                  _SceneRoot__setitem__(dataset.scene_nodes, index, node))

\* del ovito.dataset.scene_nodes[index]
SceneDelItem ==
    \E index \in ListIndexArgs(Len(dataset.scene_nodes)) :
        SceneCall("__delitem__", index, None,
                  _SceneRoot__delitem__(dataset.scene_nodes, index))

\* node.remove_from_scene(), on a node that is in the scene.
RemoveFromScene ==
    \E node \in HeldNodes :
        /\ IsChild(dataset.scene_nodes, node)
        /\ SceneCall("remove_from_scene", 0, node,
                     _SceneRoot__delitem__node(dataset.scene_nodes, node))

NextScene ==
    \/ ImportFile
    \/ SetSelectedNode
    \/ SceneAppend
    \/ SceneInsert
    \/ SceneSetItem
    \/ SceneDelItem
    \/ RemoveFromScene

SpecScene == InitScene /\ [][NextScene]_vars

\* C22 (scene size after an import): an import_file call that returned with
\* mode AddToScene has made the scene one node longer; with mode
\* ReplaceSelected and a node selected before the call it has left the
\* number of nodes as it was; with mode ResetScene it has left exactly one
\* node.
C22_SceneSize ==
    [][ ( call'.op = "import_file" /\ call'.raised = "" ) =>
            /\ call'.args[1] = "AddToScene" =>
                  Len(dataset'.scene_nodes) = Len(dataset.scene_nodes) + 1
            /\ ( call'.args[1] = "ReplaceSelected"
                 /\ IsObjectNode(dataset.selected_node) ) =>
                  Len(dataset'.scene_nodes) = Len(dataset.scene_nodes)
            /\ call'.args[1] = "ResetScene" =>
                  Len(dataset'.scene_nodes) = 1 ]_vars

\* The run of the test script: two nodes added, the selected one replaced
\* with two nodes in the scene, then the scene reset to one node.
C22_Witness ==
    /\ call.op = "import_file" /\ call.raised = ""
    /\ call.args = << "ResetScene" >>
    /\ dataset.made = 3
    /\ Len(dataset.scene_nodes) = 1



\* C23 (the node import_file returns): an import_file call that returned
\* has handed back an ObjectNode, the one the dataset has selected once the
\* call is over; with mode ReplaceSelected and a node selected before the
\* call that is the node that was selected before.
C23_ReturnsSelected ==
    [][ ( call'.op = "import_file" /\ call'.raised = "" ) =>
            /\ IsObjectNode(call'.result)
            /\ call'.result = _get_DataSet_selected_node(dataset')
            /\ ( call'.args[1] = "ReplaceSelected"
                 /\ IsObjectNode(dataset.selected_node) ) =>
                  call'.result = dataset.selected_node ]_vars

\* An import with ReplaceSelected has returned the second of two nodes in
\* the scene.
C23_Witness ==
    /\ call.op = "import_file" /\ call.raised = ""
    /\ call.args = << "ReplaceSelected" >>
    /\ Len(dataset.scene_nodes) = 2
    /\ call.result = dataset.scene_nodes[2]
    /\ dataset.made = 2



\* No node occurs twice among the children.
NoDuplicates(children) ==
    \A m, n \in 1..Len(children) : children[m] = children[n] => m = n

\* The index of a call, counted from the front, names a place in a list of
\* the given length.
IndexInRange(index, len) ==
    IF index < 0 THEN index + len >= 0 ELSE index < len

MaxRev == 2

\* The members of PipelineStatus.Type.
PipelineStatusTypes == { "Success", "Warning", "Error", "Pending" }

\* No pipeline flow state: the value of fields that are not set.
NoState == [ status |-> "", rev |-> 0 ]

\* The nodes of a script that evaluates pipelines.
NodeIds == { 1, 2 }

\* node.evalPipeline(time): the pipeline's flow state, with its status.
evalPipeline(node) == node.pipeline

\* node.waitUntilReady(time, msgText): waits while the pipeline is pending;
\* over, the pipeline has its results (ready, with the status they come
\* with) unless the user cancelled the wait.
waitUntilReady(node, ready, status) ==
    IF ready /\ node.pipeline.status = "Pending"
    THEN [ node EXCEPT !.pipeline.status = status ]
    ELSE node

\* How a call on a node ends: the node as the call leaves it, the exception
\* raised ("" when it returned) and the flow state returned.
NodeRaised(node, error) == [ node |-> node, raised |-> error, result |-> NoState ]

NodeReturned(node, state) == [ node |-> node, raised |-> "", result |-> state ]

\* Variant: the pipeline evaluated into self.__output before the wait.
_ObjectNode_computeStoresFirst(node, ready, status) ==
    LET waited == waitUntilReady(node, ready, status)
        stored == [ waited EXCEPT !.has_output = TRUE,
                                  !.output = evalPipeline(waited) ]
        result == _ObjectNode_wait(ready, evalPipeline(waited).status, TRUE)
    IN  IF result = "RuntimeError" THEN NodeRaised(stored, "RuntimeError")
        ELSE IF result = "False" THEN NodeRaised(stored, "RuntimeError")
        ELSE IF stored.output.status = "Error" THEN NodeRaised(stored, "AssertionError")
        ELSE IF stored.output.status = "Pending" THEN NodeRaised(stored, "AssertionError")
        ELSE NodeReturned(stored, stored.output)

\* Variant: "self.wait(signalError = False)" for "self.wait()".
_ObjectNode_computeNoSignal(node, ready, status) ==
    LET waited == waitUntilReady(node, ready, status)
        result == _ObjectNode_wait(ready, evalPipeline(waited).status, FALSE)
    IN  IF result = "RuntimeError" THEN NodeRaised(waited, "RuntimeError")
        ELSE IF result = "False" THEN NodeRaised(waited, "RuntimeError")
        ELSE LET stored == [ waited EXCEPT !.has_output = TRUE,
                                           !.output = evalPipeline(waited) ]
             IN  IF stored.output.status = "Error"
                 THEN NodeRaised(stored, "AssertionError")
                 ELSE IF stored.output.status = "Pending"
                 THEN NodeRaised(stored, "AssertionError")
                 ELSE NodeReturned(stored, stored.output)

\* ObjectNode.compute()
_ObjectNode_compute(node, ready, status) ==
    LET waited == waitUntilReady(node, ready, status)
        result == _ObjectNode_wait(ready, evalPipeline(waited).status, TRUE)
    IN  IF result = "RuntimeError" THEN NodeRaised(waited, "RuntimeError")
        ELSE IF result = "False" THEN NodeRaised(waited, "RuntimeError")
        ELSE LET stored == [ waited EXCEPT !.has_output = TRUE,
                                           !.output = evalPipeline(waited) ]
             IN  IF stored.output.status = "Error"
                 THEN NodeRaised(stored, "AssertionError")
                 ELSE IF stored.output.status = "Pending"
                 THEN NodeRaised(stored, "AssertionError")
                 ELSE NodeReturned(stored, stored.output)

\* ObjectNode.output: hasattr(self, "__output"), else RuntimeError.
_ObjectNode_output(node) ==
    IF ~node.has_output THEN NodeRaised(node, "RuntimeError")
    ELSE NodeReturned(node, node.output)

\* A node the script has got from import_file: its pipeline in any status,
\* never computed.
NewNodes ==
    [ pipeline : [ status : PipelineStatusTypes, rev : {0} ],
      has_output : {FALSE}, output : {NoState},
      computed : {FALSE}, returned : {NoState} ]

InitNode ==
    /\ FinderIdle
    /\ dataset = NoDataSet
    /\ nodes \in [ NodeIds -> NewNodes ]
    /\ call = NoCall

\* The script changes something the pipeline depends on (a modifier, a
\* parameter, the cell): the pipeline has to be evaluated anew.
EditPipeline ==
    \E n \in NodeIds :
        /\ nodes[n].pipeline.rev < MaxRev
        /\ nodes' = [ nodes EXCEPT ![n].pipeline =
                        [ status |-> "Pending", rev |-> @.rev + 1 ] ]
        /\ call' = [ op |-> "edit", args |-> << n >>, raised |-> "",
                     result |-> NoState ]
        /\ UNCHANGED <<finderVars, dataset>>

\* node.compute()
Compute ==
    \E n \in NodeIds, ready \in BOOLEAN,
       status \in PipelineStatusTypes \ { "Pending" } :
        LET r == _ObjectNode_compute(nodes[n], ready, status)
        IN  /\ nodes' = [ nodes EXCEPT ![n] =
                            IF r.raised = ""
                            THEN [ r.node EXCEPT !.computed = TRUE,
                                                 !.returned = r.result ]
                            ELSE r.node ]
            /\ call' = [ op |-> "compute", args |-> << n, ready >>,
                         raised |-> r.raised, result |-> r.result ]
            /\ UNCHANGED <<finderVars, dataset>>

\* node.output
ReadOutput ==
    \E n \in NodeIds :
        LET r == _ObjectNode_output(nodes[n])
        IN  /\ nodes' = [ nodes EXCEPT ![n] = r.node ]
            /\ call' = [ op |-> "output", args |-> << n >>,
                         raised |-> r.raised, result |-> r.result ]
            /\ UNCHANGED <<finderVars, dataset>>

NextNode ==
    \/ EditPipeline
    \/ Compute
    \/ ReadOutput

SpecNode == InitNode /\ [][NextNode]_vars

\* C24 (output follows compute): reading node.output raises RuntimeError as
\* long as no compute() on the node has returned, and afterwards returns
\* the state the most recent compute() that returned handed back; a
\* compute() that raises leaves what node.output gives as it was.
C24_OutputFollowsCompute ==
    [][ /\ call'.op = "output" =>
            LET node == nodes[call'.args[1]]
            IN  IF ~node.computed
                THEN call'.raised = "RuntimeError"
                ELSE call'.raised = "" /\ call'.result = node.returned
        /\ ( call'.op = "compute" /\ call'.raised # "" ) =>
            LET n == call'.args[1]
            IN  /\ nodes'[n].has_output = nodes[n].has_output
                /\ nodes'[n].output = nodes[n].output ]_vars

\* node.output has been read after a compute() that returned was followed
\* by a change of the pipeline and a compute() that raised.
C24_Witness ==
    /\ call.op = "output" /\ call.raised = ""
    /\ LET node == nodes[call.args[1]]
       IN  /\ node.returned.rev < node.pipeline.rev
           /\ node.pipeline.status = "Error"

\* C25 (compute fails or succeeds cleanly): compute() raises RuntimeError
\* when the wait was cancelled and when the evaluated pipeline has status
\* Error; whenever it returns, the status of the state it returns is
\* neither Error nor Pending.
C25_ComputeOutcome ==
    [][ call'.op = "compute" =>
            LET n == call'.args[1]
            IN  /\ ( ~call'.args[2] \/ nodes'[n].pipeline.status = "Error" ) =>
                      call'.raised = "RuntimeError"
                /\ call'.raised = "" =>
                      call'.result.status \notin { "Error", "Pending" } ]_vars

\* A compute() has raised RuntimeError on a pipeline that was waited for and
\* came out with status Error.
C25_Witness ==
    /\ call.op = "compute" /\ call.raised = "RuntimeError"
    /\ call.args[2]
    /\ nodes[call.args[1]].pipeline.status = "Error"
    /\ nodes[call.args[1]].pipeline.rev > 0



(***************************************************************************)
(* ObjectNode.modifiers: the list-like view of a node's pipeline.  The     *)
(* pipeline is the chain of PipelineObjects from the one next to the       *)
(* source outwards, each a sequence of modifier applications; a modifier   *)
(* is a number.                                                            *)
(***************************************************************************)
\* How many PipelineObjects a pipeline has, how many modifier applications
\* a PipelineObject starts with, how many modifiers a script has, and how
\* long the script lets the modifier list grow.
MaxObjects == 2

MaxApplications == 2

MaxModifiers == 2

MaxListLen == 4

Modifiers == 1 .. MaxModifiers

\* PipelineObject.insertModifier(mod, index)
insertModifier(apps, mod, index) ==
    SubSeq(apps, 1, index) \o << mod >> \o SubSeq(apps, index + 1, Len(apps))

\* PipelineObject.removeModifier(app), app the application at place index
\* (counted from 0).
removeModifier(apps, index) ==
    SubSeq(apps, 1, index) \o SubSeq(apps, index + 2, Len(apps))

\* ObjectNode.applyModifier(mod): the modifier goes to the end of the
\* pipeline, into the outermost PipelineObject; a node without one gets one.
applyModifier(polist, mod) ==
    IF polist = << >> THEN << << mod >> >>
    ELSE [ polist EXCEPT ![Len(polist)] = Append(@, mod) ]

RECURSIVE _modifierList(_)
\* ObjectNodeModifierList._modifierList(): the modifiers of all
\* PipelineObjects of _pipelineObjectList(), in order.
_modifierList(polist) ==
    IF polist = << >> THEN << >>
    ELSE _modifierList(SubSeq(polist, 1, Len(polist) - 1)) \o polist[Len(polist)]

RECURSIVE ObjectNodeModifierList__len__(_)
\* ObjectNodeModifierList.__len__(): the applications counted along the
\* chain from the node's data provider to the source.
ObjectNodeModifierList__len__(polist) ==
    IF polist = << >> THEN 0
    ELSE Len(polist[Len(polist)])
            + ObjectNodeModifierList__len__(SubSeq(polist, 1, Len(polist) - 1))

RECURSIVE CountBefore(_, _)
\* The value of "count" when the outer loop reaches the k-th PipelineObject.
CountBefore(polist, k) ==
    IF k <= 1 THEN 0 ELSE CountBefore(polist, k - 1) + Len(polist[k - 1])

\* The place where "count == index" comes true in the nested loops: the
\* PipelineObject (from 1) and the application in it (from 0), or << >> when
\* the loops run out.
WhereCountIs(polist, index) ==
    LET found == { k \in 1..Len(polist) :
                     /\ CountBefore(polist, k) <= index
                     /\ index < CountBefore(polist, k) + Len(polist[k]) }
    IN  IF found = {} THEN << >>
        ELSE LET k == CHOOSE k \in found : TRUE
             IN  << k, index - CountBefore(polist, k) >>

\* How a call on the modifier list ends: the pipeline it leaves and the
\* exception raised ("" when it returned).
Pipeline(polist, error) == [ pipeline |-> polist, raised |-> error ]

\* ObjectNodeModifierList.__setitem__(index, newMod)
ObjectNodeModifierList__setitem__(polist, index, newMod) ==
    LET i  == IF index < 0 THEN index + ObjectNodeModifierList__len__(polist) ELSE index
        at == WhereCountIs(polist, i)
    IN  IF at = << >> THEN Pipeline(polist, "IndexError")
        ELSE Pipeline([ polist EXCEPT ![at[1]] =
                          insertModifier(removeModifier(@, at[2]), newMod, at[2]) ], "")

\* ObjectNodeModifierList.__delitem__(index)
ObjectNodeModifierList__delitem__(polist, index) ==
    LET i  == IF index < 0 THEN index + ObjectNodeModifierList__len__(polist) ELSE index
        at == WhereCountIs(polist, i)
    IN  IF at = << >> THEN Pipeline(polist, "IndexError")
        ELSE Pipeline([ polist EXCEPT ![at[1]] = removeModifier(@, at[2]) ], "")

\* ObjectNodeModifierList.append(mod)
ObjectNodeModifierList_append(polist, mod) ==
    Pipeline(applyModifier(polist, mod), "")

\* ObjectNodeModifierList.insert(index, mod)
ObjectNodeModifierList_insert(polist, index, mod) ==
    LET i  == IF index < 0 THEN index + ObjectNodeModifierList__len__(polist) ELSE index
        at == WhereCountIs(polist, i)
    IN  IF at = << >> THEN Pipeline(applyModifier(polist, mod), "")
        ELSE Pipeline([ polist EXCEPT ![at[1]] = insertModifier(@, mod, at[2]) ], "")

\* The sequences of modifier applications a PipelineObject starts with.
Applications == UNION { [1..n -> Modifiers] : n \in 0..MaxApplications }

\* The pipelines a node starts with.
Pipelines == UNION { [1..n -> Applications] : n \in 0..MaxObjects }

InitMods ==
    /\ FinderIdle
    /\ dataset = NoDataSet
    /\ \E polist \in Pipelines : nodes = << [ pipeline |-> polist ] >>
    /\ call = NoCall

\* A call on node.modifiers has ended with r.
ModifiersCall(op, index, mod, r) ==
    /\ ObjectNodeModifierList__len__(r.pipeline) <= MaxListLen
    /\ nodes' = [ nodes EXCEPT ![1].pipeline = r.pipeline ]
    /\ call' = [ op |-> op, args |-> << index, mod >>,
                 raised |-> r.raised, result |-> None ]
    /\ UNCHANGED <<finderVars, dataset>>

\* node.modifiers.append(mod)
ModifiersAppend ==
    \E mod \in Modifiers :
        ModifiersCall("append", 0, mod,
                      ObjectNodeModifierList_append(nodes[1].pipeline, mod))

\* node.modifiers.insert(index, mod)
ModifiersInsert ==
    \E index \in ListIndexArgs(Len(_modifierList(nodes[1].pipeline))),
       mod \in Modifiers :
        ModifiersCall("insert", index, mod,
                      ObjectNodeModifierList_insert(nodes[1].pipeline, index, mod))

\* node.modifiers[index] = mod
ModifiersSetItem ==
    \E index \in ListIndexArgs(Len(_modifierList(nodes[1].pipeline))),
       mod \in Modifiers :
        ModifiersCall("__setitem__", index, mod,
                      ObjectNodeModifierList__setitem__(nodes[1].pipeline, index, mod))

\* del node.modifiers[index]
ModifiersDelItem ==
    \E index \in ListIndexArgs(Len(_modifierList(nodes[1].pipeline))) :
        ModifiersCall("__delitem__", index, None,
                      ObjectNodeModifierList__delitem__(nodes[1].pipeline, index))

NextMods ==
    \/ ModifiersAppend
    \/ ModifiersInsert
    \/ ModifiersSetItem
    \/ ModifiersDelItem

SpecMods == InitMods /\ [][NextMods]_vars

\* What a Python list does: list.insert(index, x) with the index clipped to
\* the list, list[index] = x and del list[index] with IndexError outside
\* -len..len-1.
PyListInsert(list, index, x) ==
    LET shifted == IF index < 0 THEN index + Len(list) ELSE index
        i == IF shifted < 0 THEN 0
             ELSE IF shifted > Len(list) THEN Len(list) ELSE shifted
    IN  [ list |-> SubSeq(list, 1, i) \o << x >> \o SubSeq(list, i + 1, Len(list)),
          raised |-> "" ]

PyListSetItem(list, index, x) ==
    LET i == IF index < 0 THEN index + Len(list) ELSE index
    IN  IF i < 0 \/ i >= Len(list) THEN [ list |-> list, raised |-> "IndexError" ]
        ELSE [ list |-> [ list EXCEPT ![i + 1] = x ], raised |-> "" ]

PyListDelItem(list, index) ==
    LET i == IF index < 0 THEN index + Len(list) ELSE index
    IN  IF i < 0 \/ i >= Len(list) THEN [ list |-> list, raised |-> "IndexError" ]
        ELSE [ list |-> SubSeq(list, 1, i) \o SubSeq(list, i + 2, Len(list)),
               raised |-> "" ]

\* C28 (the modifier list is a Python list): every insert, __setitem__ and
\* __delitem__ on node.modifiers, for any pipeline and any integer index,
\* leaves the modifiers as the same call leaves a Python list holding them
\* and raises what the list raises (IndexError outside the list for
\* __setitem__ and __delitem__, the modifiers then unchanged), and len()
\* is the number of modifiers iterating yields.
C28_EmulatesList ==
    [][ LET before == _modifierList(nodes[1].pipeline)
            after  == _modifierList(nodes'[1].pipeline)
            list   == IF call'.op = "insert"
                      THEN PyListInsert(before, call'.args[1], call'.args[2])
                      ELSE IF call'.op = "__setitem__"
                      THEN PyListSetItem(before, call'.args[1], call'.args[2])
                      ELSE PyListDelItem(before, call'.args[1])
        IN  /\ call'.op \in { "insert", "__setitem__", "__delitem__" } =>
                  /\ after = list.list
                  /\ call'.raised = list.raised
            /\ ObjectNodeModifierList__len__(nodes'[1].pipeline) = Len(after) ]_vars



(***************************************************************************)
(* SimulationCell.pbc: the three periodic flags as one tuple.  The node's  *)
(* cell is the record of its pbc_x, pbc_y and pbc_z attributes.            *)
(***************************************************************************)
\* The longest sequence a script assigns to pbc.
MaxFlags == 4

\* The sequences of Boolean flags a script assigns.
FlagArgs == UNION { [1..n -> BOOLEAN] : n \in 0..MaxFlags }

\* How a call on the cell ends: the cell it leaves, the exception raised
\* ("" when it returned) and the tuple returned.
CellRaised(cell, error) == [ cell |-> cell, raised |-> error, result |-> << >> ]

CellReturned(cell, value) == [ cell |-> cell, raised |-> "", result |-> value ]

\* SimulationCell.pbc, read.
_get_SimulationCell_pbc(cell) ==
    CellReturned(cell, << cell.pbc_x, cell.pbc_y, cell.pbc_z >>)

\* Variant: "self.pbc_z = flags[1]".
_set_SimulationCell_pbcTwice(cell, flags) ==
    IF Len(flags) # 3 THEN CellRaised(cell, "AssertionError")
    ELSE CellReturned([ pbc_x |-> flags[1], pbc_y |-> flags[2], pbc_z |-> flags[2] ],
                      << >>)

\* SimulationCell.pbc = flags
_set_SimulationCell_pbc(cell, flags) ==
    IF Len(flags) # 3 THEN CellRaised(cell, "AssertionError")
    ELSE CellReturned([ pbc_x |-> flags[1], pbc_y |-> flags[2], pbc_z |-> flags[3] ],
                      << >>)

\* The cell of the imported file, with any flags.
InitCell ==
    /\ FinderIdle
    /\ dataset = NoDataSet
    /\ \E c \in [ pbc_x : BOOLEAN, pbc_y : BOOLEAN, pbc_z : BOOLEAN ] :
          nodes = << [ cell |-> c ] >>
    /\ call = NoCall

\* cell.pbc = flags
SetPbc ==
    \E flags \in FlagArgs :
        LET r == _set_SimulationCell_pbc(nodes[1].cell, flags)
        IN  /\ nodes' = [ nodes EXCEPT ![1].cell = r.cell ]
            /\ call' = [ op |-> "set_pbc", args |-> << flags >>,
                         raised |-> r.raised, result |-> r.result ]
            /\ UNCHANGED <<finderVars, dataset>>

\* cell.pbc
GetPbc ==
    LET r == _get_SimulationCell_pbc(nodes[1].cell)
    IN  /\ nodes' = [ nodes EXCEPT ![1].cell = r.cell ]
        /\ call' = [ op |-> "get_pbc", args |-> << >>,
                     raised |-> r.raised, result |-> r.result ]
        /\ UNCHANGED <<finderVars, dataset>>

NextCell ==
    \/ SetPbc
    \/ GetPbc

SpecCell == InitCell /\ [][NextCell]_vars

\* C30 (pbc round trip): an assignment of a sequence of three flags to
\* cell.pbc returns, and reading cell.pbc right after it returns those
\* three flags as a tuple; an assignment of a sequence of any other
\* length raises AssertionError and leaves pbc_x, pbc_y and pbc_z as they
\* were.
C30_PbcRoundTrip ==
    [][ /\ ( call'.op = "set_pbc" /\ Len(call'.args[1]) = 3 ) =>
              call'.raised = ""
        /\ ( call.op = "set_pbc" /\ call.raised = "" /\ call'.op = "get_pbc" ) =>
              /\ call'.raised = ""
              /\ call'.result = call.args[1]
        /\ ( call'.op = "set_pbc" /\ Len(call'.args[1]) # 3 ) =>
              /\ call'.raised = "AssertionError"
              /\ nodes'[1].cell = nodes[1].cell ]_vars

\* The assignment of the test script, cell.pbc = (False, True, True), has
\* returned and the cell has these flags.
C30_Witness ==
    /\ call.op = "set_pbc" /\ call.raised = ""
    /\ call.args[1] = << FALSE, TRUE, TRUE >>
    /\ nodes[1].cell = [ pbc_x |-> FALSE, pbc_y |-> TRUE, pbc_z |-> TRUE ]

=============================================================================
